---- MODULE Spec2Model ----
(***************************************************************************)
(* Model of the recipe server (src/server.py) and of the review path of   *)
(* its command-line client (src/client.py).                                *)
(*                                                                         *)
(* The two JSON files are the only state of the server.  Every handler is  *)
(* an operator from its arguments and the current disk to the disk it      *)
(* leaves and the HTTP response it gives; an action applies one handler.   *)
(*                                                                         *)
(* Text that the code inspects (ingredient entries, categories, filters)   *)
(* is a sequence of one-letter strings, so that str.lower() and the `in`   *)
(* substring test are computed; text the code only stores (titles, steps,  *)
(* review texts) is an atomic string.  Ratings are integers of [0,5].      *)
(***************************************************************************)
EXTENDS Integers, Sequences, FiniteSets, TLC

VARIABLES
    disk,      \* file name -> parsed JSON document; DOMAIN disk = files that exist
    last,      \* the latest request: handler, arguments, response
    issued,    \* ids returned by add_recipe, in the order they were returned
    deleted,   \* ids for which delete_recipe has answered 204
    partial,   \* files a failed write left holding a part of a document
    inflight   \* requests and client runs that are between two of their steps

vars == <<disk, last, issued, deleted, partial, inflight>>

\* ---------------------------------------------------------------- bounds
MaxId == 2          \* add_recipe is not called once last_id has reached MaxId
MaxReviews == 2     \* longest reviews list a request carries

\* ------------------------------------------------------------- constants
DATA_FILE == "data.json"
REVIEWS_FILE == "reviews.json"

\* Python's None, for Optional[str] query parameters and for the fields of
\* `last` a request does not use.  No text equals it: every element of a
\* text is a one-letter string.
None == <<"None">>

\* ------------------------------------------------------------------ text
\* str.lower() on one character of the alphabet the inputs are written in.
lower_char(c) ==
    CASE c = "B" -> "b"
      [] c = "E" -> "e"
      [] c = "G" -> "g"
      [] c = "L" -> "l"
      [] c = "M" -> "m"
      [] c = "N" -> "n"
      [] c = "U" -> "u"
      [] c = "C" -> "c"
      [] c = "H" -> "h"
      [] OTHER -> c

\* str.lower()
lower(s) == IF s = <<>> THEN <<>> ELSE [i \in 1..Len(s) |-> lower_char(s[i])]

\* Python's `sub in s` on strings
str_in(sub, s) ==
    \E i \in 1..(Len(s) - Len(sub) + 1) : SubSeq(s, i, i + Len(sub) - 1) = sub

\* Python's truth value of an Optional[str]: None and "" are false.
truthy(x) == x # None /\ x # <<>>

\* ------------------------------------------------------------ read/write
\* read_data: the parsed file, or the empty structure of that file's kind
\* when the file does not exist.
read_from(d, filename) ==
    IF filename \notin DOMAIN d
    THEN (IF filename = REVIEWS_FILE THEN <<>>
          ELSE [recipes |-> <<>>, last_id |-> 0])
    ELSE d[filename]

read_data(filename) == read_from(disk, filename)

\* write_data: the disk with `filename` (re)created holding `data`.
write_data(d, data, filename) ==
    [f \in (DOMAIN d) \cup {filename} |-> IF f = filename THEN data ELSE d[f]]

\* dict.update(other): keys of `other` overwrite, the other keys stay.
dict_update(item, other) ==
    [k \in (DOMAIN item) \cup (DOMAIN other) |->
        IF k \in DOMAIN other THEN other[k] ELSE item[k]]

HTTPException(code) == [status |-> code, body |-> None]

\* ---------------------------------------------------------------- server
\* Each handler gives [disk |-> the disk it leaves, response |-> its answer].

\* Mutant of add_recipe: the new id is counted from the recipes in the
\* store instead of being taken from last_id.
add_recipe_counts(recipe) ==
    LET data == read_data(DATA_FILE)
        reviews_data == read_data(REVIEWS_FILE)
        new_id == Len(data.recipes) + 1
        new_recipe == dict_update(recipe, [id |-> new_id])
        data2 == [recipes |-> Append(data.recipes, new_recipe),
                  last_id |-> new_id]
        disk2 == write_data(disk, data2, DATA_FILE)
        reviews_data2 == Append(reviews_data,
                                [recipe_id |-> new_id, rating |-> 0,
                                 reviews |-> <<>>])
        disk3 == write_data(disk2, reviews_data2, REVIEWS_FILE)
    IN  [disk |-> disk3, response |-> [status |-> 201, body |-> new_recipe]]

\* POST /recipes/
add_recipe(recipe) ==
    LET data == read_data(DATA_FILE)
        reviews_data == read_data(REVIEWS_FILE)
        last_id == data.last_id
        new_id == last_id + 1
        new_recipe == dict_update(recipe, [id |-> new_id])
        data2 == [recipes |-> Append(data.recipes, new_recipe),
                  last_id |-> new_id]
        disk2 == write_data(disk, data2, DATA_FILE)
        reviews_data2 == Append(reviews_data,
                                [recipe_id |-> new_id, rating |-> 0,
                                 reviews |-> <<>>])
        disk3 == write_data(disk2, reviews_data2, REVIEWS_FILE)
    IN  [disk |-> disk3, response |-> [status |-> 201, body |-> new_recipe]]

\* Mutant of recipe_matches: the ingredient filter is not lowered.
recipe_matches_raw_ingredient(recipe, ingredient, category) ==
    /\ IF truthy(ingredient)
       THEN \E k \in 1..Len(recipe.ingredients) :
                str_in(ingredient, lower(recipe.ingredients[k]))
       ELSE TRUE
    /\ IF truthy(category)
       THEN lower(recipe.category) = lower(category)
       ELSE TRUE

\* Mutant of recipe_matches: the stored category is not lowered.
recipe_matches_raw_category(recipe, ingredient, category) ==
    /\ IF truthy(ingredient)
       THEN \E k \in 1..Len(recipe.ingredients) :
                str_in(lower(ingredient), lower(recipe.ingredients[k]))
       ELSE TRUE
    /\ IF truthy(category)
       THEN recipe.category = lower(category)
       ELSE TRUE

\* The condition of the comprehension in get_recipes.
recipe_matches(recipe, ingredient, category) ==
    /\ IF truthy(ingredient)
       THEN \E k \in 1..Len(recipe.ingredients) :
                str_in(lower(ingredient), lower(recipe.ingredients[k]))
       ELSE TRUE
    /\ IF truthy(category)
       THEN lower(recipe.category) = lower(category)
       ELSE TRUE

\* GET /recipes/
get_recipes(ingredient, category) ==
    LET data == read_data(DATA_FILE)
        recipes == data.recipes
        Keep(recipe) == recipe_matches(recipe, ingredient, category)
        filtered_recipes == SelectSeq(recipes, Keep)
    IN  [disk |-> disk,
         response |-> IF filtered_recipes = <<>>
                      THEN HTTPException(404)
                      ELSE [status |-> 200, body |-> filtered_recipes]]

\* Position of the first aggregate keyed `recipe_id`, 0 when there is none:
\* where the `for item in reviews_data` scans of get_reviews and
\* update_reviews stop.
first_item(reviews_data, recipe_id) ==
    LET hits == {i \in 1..Len(reviews_data) :
                    reviews_data[i].recipe_id = recipe_id}
    IN  IF hits = {} THEN 0
        ELSE CHOOSE i \in hits : \A j \in hits : i <= j

\* GET /recipes/{recipe_id}/reviews
get_reviews(recipe_id) ==
    LET reviews_data == read_data(REVIEWS_FILE)
        pos == first_item(reviews_data, recipe_id)
    IN  [disk |-> disk,
         response |-> IF pos = 0 THEN HTTPException(404)
                      ELSE [status |-> 200, body |-> reviews_data[pos]]]

\* Mutant of update_reviews: the reviews of the body are appended to the
\* stored ones.
update_reviews_appends(recipe_id, review_rating) ==
    LET reviews_data == read_data(REVIEWS_FILE)
        pos == first_item(reviews_data, recipe_id)
        item == [dict_update(reviews_data[pos], review_rating) EXCEPT
                    !.reviews = reviews_data[pos].reviews
                                \o review_rating.reviews]
        reviews_data2 == [reviews_data EXCEPT ![pos] = item]
    IN  IF pos = 0
        THEN [disk |-> disk, response |-> HTTPException(404)]
        ELSE [disk |-> write_data(disk, reviews_data2, REVIEWS_FILE),
              response |-> [status |-> 200, body |-> item]]

\* Mutant of update_reviews: a body for a recipe_id that has no aggregate
\* is stored as a new aggregate.
update_reviews_upserts(recipe_id, review_rating) ==
    LET reviews_data == read_data(REVIEWS_FILE)
        pos == first_item(reviews_data, recipe_id)
        item == dict_update(reviews_data[pos], review_rating)
        reviews_data2 == [reviews_data EXCEPT ![pos] = item]
    IN  IF pos = 0
        THEN [disk |-> write_data(disk, Append(reviews_data, review_rating),
                                  REVIEWS_FILE),
              response |-> [status |-> 200, body |-> review_rating]]
        ELSE [disk |-> write_data(disk, reviews_data2, REVIEWS_FILE),
              response |-> [status |-> 200, body |-> item]]

\* Mutant of update_reviews: the stored rating is kept.
update_reviews_keeps_rating(recipe_id, review_rating) ==
    LET reviews_data == read_data(REVIEWS_FILE)
        pos == first_item(reviews_data, recipe_id)
        item == [dict_update(reviews_data[pos], review_rating) EXCEPT
                    !.rating = reviews_data[pos].rating]
        reviews_data2 == [reviews_data EXCEPT ![pos] = item]
    IN  IF pos = 0
        THEN [disk |-> disk, response |-> HTTPException(404)]
        ELSE [disk |-> write_data(disk, reviews_data2, REVIEWS_FILE),
              response |-> [status |-> 200, body |-> item]]

\* PUT /recipes/{recipe_id}/reviews
update_reviews(recipe_id, review_rating) ==
    LET reviews_data == read_data(REVIEWS_FILE)
        pos == first_item(reviews_data, recipe_id)
        item == dict_update(reviews_data[pos], review_rating)
        reviews_data2 == [reviews_data EXCEPT ![pos] = item]
    IN  IF pos = 0
        THEN [disk |-> disk, response |-> HTTPException(404)]
        ELSE [disk |-> write_data(disk, reviews_data2, REVIEWS_FILE),
              response |-> [status |-> 200, body |-> item]]

\* Mutant of delete_recipe: the reviews keyed recipe_id are removed before
\* the recipe is looked for.
delete_recipe_sweeps(recipe_id) ==
    LET data == read_data(DATA_FILE)
        reviews_data == read_data(REVIEWS_FILE)
        recipe_exists == \E i \in 1..Len(data.recipes) :
                             data.recipes[i].id = recipe_id
        KeepRecipe(recipe) == recipe.id # recipe_id
        data2 == [data EXCEPT !.recipes = SelectSeq(data.recipes, KeepRecipe)]
        KeepReview(review) == review.recipe_id # recipe_id
        reviews_data2 == SelectSeq(reviews_data, KeepReview)
        disk2 == write_data(disk, reviews_data2, REVIEWS_FILE)
        disk3 == write_data(disk2, data2, DATA_FILE)
    IN  IF ~recipe_exists
        THEN [disk |-> disk2, response |-> HTTPException(404)]
        ELSE [disk |-> disk3, response |-> [status |-> 204, body |-> None]]

\* Mutant of delete_recipe: last_id is wound back to the number of recipes
\* that are left.
delete_recipe_rewinds(recipe_id) ==
    LET data == read_data(DATA_FILE)
        reviews_data == read_data(REVIEWS_FILE)
        recipe_exists == \E i \in 1..Len(data.recipes) :
                             data.recipes[i].id = recipe_id
        KeepRecipe(recipe) == recipe.id # recipe_id
        kept == SelectSeq(data.recipes, KeepRecipe)
        data2 == [recipes |-> kept, last_id |-> Len(kept)]
        disk2 == write_data(disk, data2, DATA_FILE)
        KeepReview(review) == review.recipe_id # recipe_id
        reviews_data2 == SelectSeq(reviews_data, KeepReview)
        disk3 == write_data(disk2, reviews_data2, REVIEWS_FILE)
    IN  IF ~recipe_exists
        THEN [disk |-> disk, response |-> HTTPException(404)]
        ELSE [disk |-> disk3, response |-> [status |-> 204, body |-> None]]

\* Mutant of delete_recipe: the recipe store is not written back.
delete_recipe_keeps_recipe(recipe_id) ==
    LET data == read_data(DATA_FILE)
        reviews_data == read_data(REVIEWS_FILE)
        recipe_exists == \E i \in 1..Len(data.recipes) :
                             data.recipes[i].id = recipe_id
        KeepReview(review) == review.recipe_id # recipe_id
        reviews_data2 == SelectSeq(reviews_data, KeepReview)
        disk3 == write_data(disk, reviews_data2, REVIEWS_FILE)
    IN  IF ~recipe_exists
        THEN [disk |-> disk, response |-> HTTPException(404)]
        ELSE [disk |-> disk3, response |-> [status |-> 204, body |-> None]]

\* DELETE /recipes/{recipe_id}
delete_recipe(recipe_id) ==
    LET data == read_data(DATA_FILE)
        reviews_data == read_data(REVIEWS_FILE)
        recipe_exists == \E i \in 1..Len(data.recipes) :
                             data.recipes[i].id = recipe_id
        KeepRecipe(recipe) == recipe.id # recipe_id
        data2 == [data EXCEPT !.recipes = SelectSeq(data.recipes, KeepRecipe)]
        disk2 == write_data(disk, data2, DATA_FILE)
        KeepReview(review) == review.recipe_id # recipe_id
        reviews_data2 == SelectSeq(reviews_data, KeepReview)
        disk3 == write_data(disk2, reviews_data2, REVIEWS_FILE)
    IN  IF ~recipe_exists
        THEN [disk |-> disk, response |-> HTTPException(404)]
        ELSE [disk |-> disk3, response |-> [status |-> 204, body |-> None]]

\* ---------------------------------------------------------------- client
\* add_review, lines 46-58: GET the aggregate, set its rating, append the
\* review to its list, PUT the whole aggregate back.  The result is the
\* request it sends last and that request's outcome; when the GET is
\* refused, raise_for_status() ends the run and nothing is sent.
add_review(recipe_id, rating, review) ==
    LET response == get_reviews(recipe_id).response
        reviews_data == [response.body EXCEPT
                            !.rating = rating,
                            !.reviews = Append(response.body.reviews, review)]
    IN  IF response.status # 200
        THEN [op |-> "get_reviews", review_rating |-> None,
              result |-> get_reviews(recipe_id)]
        ELSE [op |-> "update_reviews", review_rating |-> reviews_data,
              result |-> update_reviews(recipe_id, reviews_data)]

\* ---------------------------------------------------------------- inputs
Eggs == <<"E", "g", "g", "s">>
Milk == <<"M", "i", "l", "k">>
Bacon == <<"B", "a", "c", "o", "n">>
Bun == <<"B", "u", "n">>

\* Recipe drafts that pass the validation of the Recipe model: a title of at
\* least one character, at least one ingredient, at least one step, any
\* category (the empty one included).
Pancakes == [title |-> "Pancakes", ingredients |-> <<Eggs, Milk>>,
             steps |-> <<"Mix", "Cook">>,
             category |-> <<"l", "u", "n", "c", "h">>]
Burger == [title |-> "Burger", ingredients |-> <<Bacon, Bun>>,
           steps |-> <<"Fry">>, category |-> <<"L", "u", "n", "c", "h">>]
Omelette == [title |-> "Omelette", ingredients |-> <<Eggs>>,
             steps |-> <<"Whisk", "Fry">>, category |-> <<>>]
Drafts == {Pancakes, Burger, Omelette}

\* Query parameters of GET /recipes/: absent, empty, or a text.
IngredientFilters == {None, <<>>, <<"e", "g", "g">>, <<"B", "U", "N">>}
CategoryFilters ==
    {None, <<>>, <<"L", "U", "N", "C", "H">>, <<"m", "e", "n", "u">>}

RecipeIds == 1..MaxId
Ratings == {0, 4}

\* Bodies of PUT that pass the validation of the ReviewRating model; the
\* recipe_id of the body need not be the one of the path.
ReviewRatings ==
    {[recipe_id |-> i, rating |-> 0, reviews |-> <<>>] : i \in RecipeIds}
    \cup {[recipe_id |-> i, rating |-> 4, reviews |-> <<"Great!">>] :
             i \in RecipeIds}

\* What the user of the client types for a review.
NewReviews == {"Meh"}

\* ----------------------------------------------------------------- state
\* `found` is, for an update_reviews that found its aggregate, the place
\* and the content of that aggregate before the request; `before` is the
\* disk before the request; `failed` is the number of the write that raised
\* in it, 0 when none did.
no_call == [op |-> "none", recipe_id |-> 0, recipe |-> None,
            review_rating |-> None, ingredient |-> None, category |-> None,
            response |-> HTTPException(0), found |-> None,
            before |-> None, failed |-> 0]

\* The two requests, or runs of the client, that may overlap.
Slots == {"a", "b"}
idle == [pc |-> "idle"]

Init ==
    /\ disk = [f \in {} |-> None]
    /\ last = no_call
    /\ issued = <<>>
    /\ deleted = {}
    /\ partial = {}
    /\ inflight = [p \in Slots |-> idle]

createRecipe(recipe) ==
    /\ read_data(DATA_FILE).last_id < MaxId
    /\ LET r == add_recipe(recipe) IN
        /\ disk' = r.disk
        /\ last' = [no_call EXCEPT !.op = "add_recipe", !.before = disk,
                                   !.recipe = recipe,
                                   !.response = r.response]
        /\ issued' = Append(issued, r.response.body.id)
    /\ UNCHANGED <<deleted, partial, inflight>>

listRecipes(ingredient, category) ==
    /\ LET r == get_recipes(ingredient, category) IN
        /\ disk' = r.disk
        /\ last' = [no_call EXCEPT !.op = "get_recipes", !.before = disk,
                                   !.ingredient = ingredient,
                                   !.category = category,
                                   !.response = r.response]
    /\ UNCHANGED <<issued, deleted, partial, inflight>>

getReviews(recipe_id) ==
    /\ LET r == get_reviews(recipe_id) IN
        /\ disk' = r.disk
        /\ last' = [no_call EXCEPT !.op = "get_reviews", !.before = disk,
                                   !.recipe_id = recipe_id,
                                   !.response = r.response]
    /\ UNCHANGED <<issued, deleted, partial, inflight>>

\* The aggregate update_reviews(recipe_id, ...) is about to overwrite.
found_item(recipe_id) ==
    LET reviews_data == read_data(REVIEWS_FILE)
        pos == first_item(reviews_data, recipe_id)
    IN  IF pos = 0 THEN None ELSE [pos |-> pos, item |-> reviews_data[pos]]

updateReviews(recipe_id, review_rating) ==
    /\ LET r == update_reviews(recipe_id, review_rating) IN
        /\ disk' = r.disk
        /\ last' = [no_call EXCEPT !.op = "update_reviews", !.before = disk,
                                   !.recipe_id = recipe_id,
                                   !.review_rating = review_rating,
                                   !.response = r.response,
                                   !.found = found_item(recipe_id)]
    /\ UNCHANGED <<issued, deleted, partial, inflight>>

deleteRecipe(recipe_id) ==
    /\ LET r == delete_recipe(recipe_id) IN
        /\ disk' = r.disk
        /\ last' = [no_call EXCEPT !.op = "delete_recipe", !.before = disk,
                                   !.recipe_id = recipe_id,
                                   !.response = r.response]
        /\ deleted' = IF r.response.status = 204
                      THEN deleted \cup {recipe_id} ELSE deleted
    /\ UNCHANGED <<issued, partial, inflight>>

\* One run of the client's add_review, alone on the server.
addReview(recipe_id, rating, review) ==
    /\ LET pos == first_item(read_data(REVIEWS_FILE), recipe_id) IN
           pos # 0 => Len(read_data(REVIEWS_FILE)[pos].reviews) < MaxReviews
    /\ LET c == add_review(recipe_id, rating, review) IN
        /\ disk' = c.result.disk
        /\ last' = [no_call EXCEPT !.op = c.op, !.before = disk,
                                   !.recipe_id = recipe_id,
                                   !.review_rating = c.review_rating,
                                   !.response = c.result.response,
                                   !.found = IF c.op = "update_reviews"
                                             THEN found_item(recipe_id)
                                             ELSE None]
    /\ UNCHANGED <<issued, deleted, partial, inflight>>

\* Histories of the two stores: one draft, every body of PUT.
Next ==
    \/ createRecipe(Pancakes)
    \/ listRecipes(None, None)
    \/ \E recipe_id \in RecipeIds : getReviews(recipe_id)
    \/ \E recipe_id \in RecipeIds, review_rating \in ReviewRatings :
           updateReviews(recipe_id, review_rating)
    \/ \E recipe_id \in RecipeIds : deleteRecipe(recipe_id)

Spec == Init /\ [][Next]_vars

\* Histories of reviews: runs of the client's add_review among requests
\* whose body names the recipe of the path.
NextClient ==
    \/ createRecipe(Pancakes)
    \/ \E recipe_id \in RecipeIds : getReviews(recipe_id)
    \/ \E review_rating \in ReviewRatings :
           updateReviews(review_rating.recipe_id, review_rating)
    \/ \E recipe_id \in RecipeIds : deleteRecipe(recipe_id)
    \/ \E recipe_id \in RecipeIds, rating \in Ratings, review \in NewReviews :
           addReview(recipe_id, rating, review)

SpecClient == Init /\ [][NextClient]_vars

\* Histories of recipes: every draft and every filter, one body of PUT.
NextRecipes ==
    \/ \E recipe \in Drafts : createRecipe(recipe)
    \/ \E ingredient \in IngredientFilters, category \in CategoryFilters :
           listRecipes(ingredient, category)
    \/ \E recipe_id \in RecipeIds : getReviews(recipe_id)
    \/ \E recipe_id \in RecipeIds :
           updateReviews(recipe_id, [recipe_id |-> recipe_id, rating |-> 4,
                                     reviews |-> <<"Great!">>])
    \/ \E recipe_id \in RecipeIds : deleteRecipe(recipe_id)

SpecRecipes == Init /\ [][NextRecipes]_vars

\* ------------------------------------------------------- failing writes
\* The files a handler loads before its first write, and the files it
\* writes, in order, when it does not raise a 404.
handler_reads(op) ==
    CASE op = "add_recipe" -> {DATA_FILE, REVIEWS_FILE}
      [] op = "get_recipes" -> {DATA_FILE}
      [] op = "get_reviews" -> {REVIEWS_FILE}
      [] op = "update_reviews" -> {REVIEWS_FILE}
      [] op = "delete_recipe" -> {DATA_FILE, REVIEWS_FILE}
handler_writes(op) ==
    CASE op = "add_recipe" -> <<DATA_FILE, REVIEWS_FILE>>
      [] op = "update_reviews" -> <<REVIEWS_FILE>>
      [] op = "delete_recipe" -> <<DATA_FILE, REVIEWS_FILE>>
      [] OTHER -> <<>>

\* The handler for exceptions that are no HTTPException.
global_exception_handler == [status |-> 500, body |-> None]

\* How a write_data call can raise: in open(), the file being left as it
\* was, or in json.dump, the file being left with a part of the document.
WriteFailures == {"open", "dump"}

\* The number of writes handler `op` attempts when, served alone and with
\* no write raising, it gives r.
attempted(op, r) ==
    IF handler_reads(op) \cap partial # {} \/ r.response.status = 404
    THEN 0 ELSE Len(handler_writes(op))

\* Mutant of served: the exception of a failed write is swallowed, the
\* other writes are made and the handler answers as if nothing had failed.
served_swallows(op, r, fail, how) ==
    LET files == handler_writes(op)
        made == {files[i] : i \in 1..Len(files)} \ {files[fail]}
    IN  IF handler_reads(op) \cap partial # {}
        THEN [disk |-> disk, partial |-> partial,
              response |-> global_exception_handler]
        ELSE IF fail = 0
        THEN [disk |-> r.disk, partial |-> partial, response |-> r.response]
        ELSE [disk |-> [f \in (DOMAIN disk) \cup made |->
                           IF f \in made THEN r.disk[f] ELSE disk[f]],
              partial |-> partial, response |-> r.response]

\* What the server does with a request to handler `op` that, served alone
\* and with no write raising, gives r, when its write number `fail` raises
\* (fail = 0: none does).  json.load raises on a file that holds a part of
\* a document; an exception ends the handler where it is raised.  The
\* document kept for a file of `partial` is never read.
served(op, r, fail, how) ==
    LET files == handler_writes(op)
        made == {files[i] : i \in 1..(fail - 1)}
        torn == IF how = "dump" THEN {files[fail]} ELSE {}
    IN  IF handler_reads(op) \cap partial # {}
        THEN [disk |-> disk, partial |-> partial,
              response |-> global_exception_handler]
        ELSE IF fail = 0
        THEN [disk |-> r.disk, partial |-> partial, response |-> r.response]
        ELSE [disk |-> [f \in (DOMAIN disk) \cup made \cup torn |->
                           IF f \in made \cup torn THEN r.disk[f]
                           ELSE disk[f]],
              partial |-> partial \cup torn,
              response |-> global_exception_handler]

\* A request `call` (the record kept in `last`) to the server whose writes
\* may fail.
serve(call, r, fail, how) ==
    /\ fail <= attempted(call.op, r)
    /\ LET s == served(call.op, r, fail, how) IN
        /\ disk' = s.disk
        /\ partial' = s.partial
        /\ last' = [call EXCEPT !.before = disk, !.response = s.response,
                                !.failed = fail]
        /\ issued' = IF s.response.status = 201
                     THEN Append(issued, s.response.body.id) ELSE issued
        /\ deleted' = IF s.response.status = 204
                      THEN deleted \cup {call.recipe_id} ELSE deleted
    /\ UNCHANGED inflight

createRecipeOrFail(recipe, fail, how) ==
    /\ read_data(DATA_FILE).last_id < MaxId
    /\ serve([no_call EXCEPT !.op = "add_recipe", !.recipe = recipe],
             add_recipe(recipe), fail, how)

listRecipesOrFail(ingredient, category) ==
    serve([no_call EXCEPT !.op = "get_recipes", !.ingredient = ingredient,
                          !.category = category],
          get_recipes(ingredient, category), 0, "open")

getReviewsOrFail(recipe_id) ==
    serve([no_call EXCEPT !.op = "get_reviews", !.recipe_id = recipe_id],
          get_reviews(recipe_id), 0, "open")

updateReviewsOrFail(recipe_id, review_rating, fail, how) ==
    serve([no_call EXCEPT !.op = "update_reviews", !.recipe_id = recipe_id,
                          !.review_rating = review_rating,
                          !.found = found_item(recipe_id)],
          update_reviews(recipe_id, review_rating), fail, how)

deleteRecipeOrFail(recipe_id, fail, how) ==
    serve([no_call EXCEPT !.op = "delete_recipe", !.recipe_id = recipe_id],
          delete_recipe(recipe_id), fail, how)

\* Histories in which any write may fail.
NextFail ==
    \/ \E fail \in 0..2, how \in WriteFailures :
           createRecipeOrFail(Pancakes, fail, how)
    \/ listRecipesOrFail(None, None)
    \/ \E recipe_id \in RecipeIds : getReviewsOrFail(recipe_id)
    \/ \E review_rating \in ReviewRatings, fail \in 0..1,
          how \in WriteFailures :
           updateReviewsOrFail(review_rating.recipe_id, review_rating,
                               fail, how)
    \/ \E recipe_id \in RecipeIds, fail \in 0..2, how \in WriteFailures :
           deleteRecipeOrFail(recipe_id, fail, how)

SpecFail == Init /\ [][NextFail]_vars

\* ------------------------------------------ concurrent createRecipe calls
\* The server runs each request in a thread of its own; a request in a
\* slot is between two of the file accesses of add_recipe.
all_idle == \A p \in Slots : inflight[p] = idle

\* Mutant of assign_id: the id is taken from the file as it is when the
\* recipe is saved and not from the copy the request loaded.
assign_id_rereads(data, recipe) ==
    LET stored == read_data(DATA_FILE)
        last_id == stored.last_id
        new_id == last_id + 1
        new_recipe == dict_update(recipe, [id |-> new_id])
    IN  [data |-> [recipes |-> Append(stored.recipes, new_recipe),
                   last_id |-> new_id],
         new_recipe |-> new_recipe]

\* add_recipe between its loads and its first write: the new recipe and
\* the document to save, from the copy `data` the request loaded.
assign_id(data, recipe) ==
    LET last_id == data.last_id
        new_id == last_id + 1
        new_recipe == dict_update(recipe, [id |-> new_id])
    IN  [data |-> [recipes |-> Append(data.recipes, new_recipe),
                   last_id |-> new_id],
         new_recipe |-> new_recipe]

RaceDrafts == {Pancakes, Burger}

\* data = read_data(DATA_FILE).  `raced` records that the other request
\* had loaded the recipe store and not yet saved it.
loadData(p, recipe) ==
    /\ inflight[p] = idle
    /\ read_data(DATA_FILE).last_id < MaxId
    /\ inflight' = [inflight EXCEPT ![p] =
           [pc |-> "loaded_data", recipe |-> recipe,
            data |-> read_data(DATA_FILE),
            raced |-> \E q \in Slots \ {p} :
                          inflight[q].pc \in {"loaded_data",
                                              "loaded_reviews"}]]
    /\ UNCHANGED <<disk, last, issued, deleted, partial>>

\* reviews_data = read_data(REVIEWS_FILE)
loadReviews(p) ==
    /\ inflight[p].pc = "loaded_data"
    /\ inflight' = [inflight EXCEPT ![p] =
           [pc |-> "loaded_reviews", recipe |-> inflight[p].recipe,
            data |-> inflight[p].data, raced |-> inflight[p].raced,
            reviews_data |-> read_data(REVIEWS_FILE)]]
    /\ UNCHANGED <<disk, last, issued, deleted, partial>>

\* write_data(data, DATA_FILE)
saveData(p) ==
    /\ inflight[p].pc = "loaded_reviews"
    /\ LET a == assign_id(inflight[p].data, inflight[p].recipe) IN
        /\ disk' = write_data(disk, a.data, DATA_FILE)
        /\ inflight' = [inflight EXCEPT ![p] =
               [pc |-> "saved_data", recipe |-> inflight[p].recipe,
                data |-> inflight[p].data, raced |-> inflight[p].raced,
                reviews_data |-> inflight[p].reviews_data,
                new_recipe |-> a.new_recipe]]
    /\ UNCHANGED <<last, issued, deleted, partial>>

\* write_data(reviews_data, REVIEWS_FILE); return new_recipe
saveReviews(p) ==
    /\ inflight[p].pc = "saved_data"
    /\ LET new_recipe == inflight[p].new_recipe IN
        /\ disk' = write_data(disk,
                       Append(inflight[p].reviews_data,
                              [recipe_id |-> new_recipe.id, rating |-> 0,
                               reviews |-> <<>>]),
                       REVIEWS_FILE)
        /\ inflight' = [inflight EXCEPT ![p] =
               [pc |-> "done", recipe |-> inflight[p].recipe,
                data |-> inflight[p].data, raced |-> inflight[p].raced,
                response |-> [status |-> 201, body |-> new_recipe]]]
        /\ issued' = Append(issued, new_recipe.id)
    /\ UNCHANGED <<last, deleted, partial>>

\* Histories of requests served one at a time, followed by two
\* createRecipe requests whose file accesses interleave in any way.
NextRace ==
    \/ all_idle /\ createRecipe(Pancakes)
    \/ all_idle /\ \E recipe_id \in RecipeIds : deleteRecipe(recipe_id)
    \/ \E p \in Slots, recipe \in RaceDrafts : loadData(p, recipe)
    \/ \E p \in Slots : loadReviews(p)
    \/ \E p \in Slots : saveData(p)
    \/ \E p \in Slots : saveReviews(p)

SpecRace == Init /\ [][NextRace]_vars

\* --------------------------------------------- concurrent add_review runs
\* Two clients run add_review; a run in a slot is between its GET and its
\* PUT.  The server serves each of the two requests in one step.
RaceReviews == {"Good", "Bad"}

\* GET the aggregate, set the rating and append the review; a refused GET
\* ends the run.  `raced` records that the other run had fetched and not
\* yet sent its PUT.
fetchReviews(p, recipe_id, rating, review) ==
    /\ inflight[p] = idle
    /\ LET pos == first_item(read_data(REVIEWS_FILE), recipe_id) IN
           pos # 0 => Len(read_data(REVIEWS_FILE)[pos].reviews) < MaxReviews
    /\ LET response == get_reviews(recipe_id).response IN
        inflight' = [inflight EXCEPT ![p] =
            IF response.status # 200
            THEN [pc |-> "done", op |-> "get_reviews",
                  recipe_id |-> recipe_id, review |-> review,
                  response |-> response]
            ELSE [pc |-> "fetched", recipe_id |-> recipe_id,
                  review |-> review,
                  fetched |-> response.body.reviews,
                  reviews_data |->
                      [response.body EXCEPT
                          !.rating = rating,
                          !.reviews = Append(response.body.reviews, review)],
                  raced |-> \E q \in Slots \ {p} :
                                inflight[q].pc = "fetched"]]
    /\ UNCHANGED <<disk, last, issued, deleted, partial>>

\* PUT the aggregate back.  `second` records that the other run had ended.
putReviews(p) ==
    /\ inflight[p].pc = "fetched"
    /\ LET r == update_reviews(inflight[p].recipe_id,
                               inflight[p].reviews_data) IN
        /\ disk' = r.disk
        /\ inflight' = [inflight EXCEPT ![p] =
               [pc |-> "done", op |-> "update_reviews",
                recipe_id |-> inflight[p].recipe_id,
                review |-> inflight[p].review,
                fetched |-> inflight[p].fetched,
                raced |-> inflight[p].raced,
                second |-> \E q \in Slots \ {p} : inflight[q].pc = "done",
                response |-> r.response]]
    /\ UNCHANGED <<last, issued, deleted, partial>>

\* Histories of requests and client runs made one at a time, followed by
\* two add_review runs whose requests interleave in any way.
NextReviewRace ==
    \/ all_idle /\ createRecipe(Pancakes)
    \/ all_idle /\ \E recipe_id \in RecipeIds, rating \in Ratings,
                      review \in NewReviews :
                       addReview(recipe_id, rating, review)
    \/ \E p \in Slots, recipe_id \in RecipeIds, rating \in Ratings,
          review \in RaceReviews :
           fetchReviews(p, recipe_id, rating, review)
    \/ \E p \in Slots : putReviews(p)

SpecReviewRace == Init /\ [][NextReviewRace]_vars

\* ---------------------------------------------------------------- claims
recipes == read_data(DATA_FILE).recipes
aggregates == read_data(REVIEWS_FILE)
StoredIds == {recipes[i].id : i \in 1..Len(recipes)}

\* C1: each id returned by createRecipe is strictly greater than every id
\* returned by an earlier createRecipe, also after the recipe that held an
\* earlier id was deleted.
C1_IdsStrictlyIncrease ==
    \A i, j \in 1..Len(issued) : i < j => issued[i] < issued[j]

\* A recipe has just been created after an earlier one was deleted.
C1_Witness ==
    /\ last.op = "add_recipe"
    /\ Len(issued) >= 2
    /\ issued[1] \in deleted

\* C2: between operations, every recipe with id N in the recipe store has
\* exactly one review aggregate with recipe_id = N in the review store.
C2_ExactlyOneAggregate ==
    \A i \in 1..Len(recipes) :
        Cardinality({j \in 1..Len(aggregates) :
                        aggregates[j].recipe_id = recipes[i].id}) = 1

\* C3: between operations, every aggregate of the review store has the
\* recipe_id of a recipe that is in the recipe store.
C3_NoOrphan ==
    \A j \in 1..Len(aggregates) : aggregates[j].recipe_id \in StoredIds

\* C4: when createRecipe has just returned id N, getReviews(N) succeeds and
\* returns rating 0 and an empty reviews list.
C4_FreshAggregate ==
    last.op = "add_recipe" =>
        LET response == get_reviews(last.response.body.id).response IN
            /\ response.status = 200
            /\ response.body.rating = 0
            /\ response.body.reviews = <<>>

\* C5: once deleteRecipe(N) has succeeded, getReviews(N) answers not found
\* in every later state.
C5_DeletedHasNoReviews ==
    \A N \in deleted : get_reviews(N).response.status = 404

\* C6: once deleteRecipe(N) has succeeded, no listRecipes call, with any
\* combination of filters, returns a recipe with id N.
C6_DeletedNeverListed ==
    \A N \in deleted :
        \A ingredient \in IngredientFilters, category \in CategoryFilters :
            LET response == get_recipes(ingredient, category).response IN
                response.status = 200 =>
                    \A i \in 1..Len(response.body) : response.body[i].id # N

\* A listRecipes call has just succeeded after a deletion that was followed
\* by a createRecipe.
C6_Witness ==
    /\ last.op = "get_recipes"
    /\ last.response.status = 200
    /\ \E N \in deleted : \E M \in StoredIds : M > N

\* The aggregate that the latest update_reviews found, as it is stored now.
updated_item == aggregates[last.found.pos]

\* C7 as stated: a successful updateReviews with rating r and texts T on an
\* aggregate whose reviews were R leaves it with rating r and reviews R
\* followed by T.
C7_ReviewsAppended ==
    (last.op = "update_reviews" /\ last.response.status = 200) =>
        /\ updated_item.rating = last.review_rating.rating
        /\ updated_item.reviews =
               last.found.item.reviews \o last.review_rating.reviews

\* C7 as amended: a successful updateReviews with rating r and texts T
\* leaves the aggregate it found with rating r and reviews T: the supplied
\* texts replace the stored ones.
C7_ReviewsReplaced ==
    (last.op = "update_reviews" /\ last.response.status = 200) =>
        /\ updated_item.rating = last.review_rating.rating
        /\ updated_item.reviews = last.review_rating.reviews

\* An updateReviews has just overwritten an aggregate that held a review,
\* with another rating.
C7_Witness ==
    /\ last.op = "update_reviews"
    /\ last.response.status = 200
    /\ last.found.item.reviews # <<>>
    /\ last.found.item.rating # last.review_rating.rating

\* The latest request is a successful updateReviews(N, payload) with
\* payload.recipe_id = N and payload.reviews = E ++ [newText], E being the
\* reviews stored for N before it.
merged_put ==
    /\ last.op = "update_reviews"
    /\ last.response.status = 200
    /\ last.review_rating.recipe_id = last.recipe_id
    /\ Len(last.review_rating.reviews) >= 1
    /\ last.found.item.reviews =
           SubSeq(last.review_rating.reviews, 1,
                  Len(last.review_rating.reviews) - 1)

\* C8: after updateReviews(N, {recipe_id: N, rating: r, reviews: E ++
\* [newText]}), getReviews(N) returns rating r and a reviews list whose last
\* element is newText and whose preceding elements are E in order.
C8_MergedPutRoundTrip ==
    merged_put =>
        LET response == get_reviews(last.recipe_id).response
            sent == last.review_rating.reviews
        IN  /\ response.status = 200
            /\ response.body.rating = last.review_rating.rating
            /\ Len(response.body.reviews) = Len(sent)
            /\ response.body.reviews[Len(sent)] = sent[Len(sent)]
            /\ SubSeq(response.body.reviews, 1, Len(sent) - 1) =
                   last.found.item.reviews

\* The client has just added "Meh" to a recipe reviewed "Great!" before.
C8_Witness ==
    /\ merged_put
    /\ last.found.item.reviews = <<"Great!">>
    /\ last.review_rating.reviews = <<"Great!", "Meh">>
    /\ last.found.item.rating # last.review_rating.rating

\* Case-insensitive substring and equality, letter by letter.
ci_equal(a, b) ==
    /\ Len(a) = Len(b)
    /\ \A i \in 1..Len(a) : lower_char(a[i]) = lower_char(b[i])
ci_substring(t, s) ==
    \E i \in 0..Len(s) : \E j \in i..Len(s) : ci_equal(t, SubSeq(s, i + 1, j))

\* The filter of the specification, the two filters being given or not.
wanted(recipe, ingredient_given, ingredient, category_given, category) ==
    /\ ingredient_given =>
           \E k \in 1..Len(recipe.ingredients) :
               ci_substring(ingredient, recipe.ingredients[k])
    /\ category_given => ci_equal(category, recipe.category)

listing(ingredient_given, ingredient, category_given, category) ==
    LET Wanted(recipe) == wanted(recipe, ingredient_given, ingredient,
                                 category_given, category)
        result == SelectSeq(recipes, Wanted)
    IN  IF result = <<>> THEN [status |-> 404, body |-> None]
        ELSE [status |-> 200, body |-> result]

\* C9 as stated: listRecipes returns the stored recipes, in stored order,
\* that pass the filters, a filter that is not given passing every recipe,
\* and signals NotFoundError when there is none.
C9_ListingGivenFilters ==
    last.op = "get_recipes" =>
        last.response = listing(last.ingredient # None, last.ingredient,
                                last.category # None, last.category)

\* C9 as amended: the same, a category filter that is not given or is the
\* empty text passing every recipe.
C9_ListingNonEmptyCategory ==
    last.op = "get_recipes" =>
        last.response = listing(last.ingredient # None, last.ingredient,
                                last.category # None /\ last.category # <<>>,
                                last.category)

\* A listRecipes call with both filters given has just returned some but
\* not all of the stored recipes.
C9_Witness ==
    /\ last.op = "get_recipes"
    /\ last.ingredient \notin {None, <<>>}
    /\ last.category \notin {None, <<>>}
    /\ last.response.status = 200
    /\ Len(last.response.body) < Len(recipes)

\* C10: when createRecipe(draft) has just returned, listRecipes(category =
\* draft.category) succeeds and contains a recipe with the draft's title,
\* ingredients, steps and category and the id createRecipe returned.
C10_CreatedIsListed ==
    last.op = "add_recipe" =>
        LET response == get_recipes(None, last.recipe.category).response IN
            /\ response.status = 200
            /\ \E i \in 1..Len(response.body) :
                   /\ response.body[i].id = last.response.body.id
                   /\ response.body[i].title = last.recipe.title
                   /\ response.body[i].ingredients = last.recipe.ingredients
                   /\ response.body[i].steps = last.recipe.steps
                   /\ response.body[i].category = last.recipe.category

\* A draft whose category has a capital has just been created beside a
\* recipe of another category, which the listing leaves out.
C10_Witness ==
    /\ last.op = "add_recipe"
    /\ last.recipe = Burger
    /\ LET response == get_recipes(None, last.recipe.category).response IN
           response.status = 200 /\ Len(response.body) < Len(recipes)

\* The two stores as they were before the latest request.
recipes_before == read_from(last.before, DATA_FILE).recipes
last_id_before == read_from(last.before, DATA_FILE).last_id
aggregates_before == read_from(last.before, REVIEWS_FILE)
stores_unchanged ==
    /\ recipes = recipes_before
    /\ read_data(DATA_FILE).last_id = last_id_before
    /\ aggregates = aggregates_before

\* C11: deleteRecipe(id) called when no stored recipe has that id signals
\* NotFoundError and leaves recipes, last_id and the review store as they
\* were.
C11_DeleteOfAbsentRecipe ==
    (/\ last.op = "delete_recipe"
     /\ \A i \in 1..Len(recipes_before) :
            recipes_before[i].id # last.recipe_id) =>
        /\ last.response.status = 404
        /\ stores_unchanged

\* A deleteRecipe has just been refused for an id that no recipe of a
\* store that is not empty has, although an aggregate is keyed by it.
C11_Witness ==
    /\ last.op = "delete_recipe"
    /\ last.response.status = 404
    /\ recipes # <<>>
    /\ \E j \in 1..Len(aggregates) : aggregates[j].recipe_id = last.recipe_id

\* C12: getReviews(N) and updateReviews(N, payload) signal NotFoundError
\* exactly when the review store holds no aggregate with recipe_id = N, and
\* then updateReviews leaves both stores as they were.
C12_NotFoundIffNoAggregate ==
    last.op \in {"get_reviews", "update_reviews"} =>
        LET absent == \A j \in 1..Len(aggregates_before) :
                          aggregates_before[j].recipe_id # last.recipe_id
        IN  /\ (last.response.status = 404) <=> absent
            /\ absent => stores_unchanged

\* An updateReviews has just been refused for the id of a stored recipe.
C12_Witness ==
    /\ last.op = "update_reviews"
    /\ last.response.status = 404
    /\ last.recipe_id \in StoredIds

\* C15: a successful deleteRecipe(N) removes the recipe with id N and every
\* aggregate with recipe_id = N; the other recipes and aggregates keep
\* their content and order, and last_id keeps its value.
C15_DeleteRemovesOnlyN ==
    (last.op = "delete_recipe" /\ last.response.status = 204) =>
        LET OtherRecipe(recipe) == recipe.id # last.recipe_id
            OtherAggregate(item) == item.recipe_id # last.recipe_id
        IN  /\ recipes = SelectSeq(recipes_before, OtherRecipe)
            /\ Len(recipes) = Len(recipes_before) - 1
            /\ aggregates = SelectSeq(aggregates_before, OtherAggregate)
            /\ read_data(DATA_FILE).last_id = last_id_before

\* A deleteRecipe has just removed one of two recipes and left an
\* aggregate in the review store.
C15_Witness ==
    /\ last.op = "delete_recipe"
    /\ last.response.status = 204
    /\ Len(recipes_before) = 2
    /\ aggregates # <<>>
    /\ Len(aggregates) < Len(aggregates_before)

\* C16: the ids of the stored recipes are pairwise distinct positive
\* integers, last_id is at least every stored id, and no request lowers
\* last_id.
C16_IdsAndWatermark ==
    /\ \A i, j \in 1..Len(recipes) : recipes[i].id = recipes[j].id => i = j
    /\ \A i \in 1..Len(recipes) :
           /\ recipes[i].id \in Nat \ {0}
           /\ recipes[i].id <= read_data(DATA_FILE).last_id
    /\ last.op # "none" => last_id_before <= read_data(DATA_FILE).last_id

\* The recipe that held the highest id has just been deleted while another
\* recipe is stored.
C16_Witness ==
    /\ last.op = "delete_recipe"
    /\ last.response.status = 204
    /\ last.recipe_id = read_data(DATA_FILE).last_id
    /\ recipes # <<>>

\* C18: a successful updateReviews(N, payload) changes only the rating and
\* the reviews of the aggregate keyed by N: its recipe_id stays N, every
\* other aggregate and the recipe store are unchanged.
C18_UpdateKeepsKey ==
    (last.op = "update_reviews" /\ last.response.status = 200) =>
        /\ updated_item.recipe_id = last.recipe_id
        /\ Len(aggregates) = Len(aggregates_before)
        /\ \A j \in 1..Len(aggregates) :
               j # last.found.pos => aggregates[j] = aggregates_before[j]
        /\ recipes = recipes_before
        /\ read_data(DATA_FILE).last_id = last_id_before

\* What a createRecipe, updateReviews or deleteRecipe that answered with
\* success must have left in the two files.
writes_reflected ==
    /\ handler_reads(last.op) \cap partial = {}
    /\ last.op = "add_recipe" =>
           /\ \E i \in 1..Len(recipes) : recipes[i] = last.response.body
           /\ read_data(DATA_FILE).last_id = last.response.body.id
           /\ \E j \in 1..Len(aggregates) :
                  aggregates[j] = [recipe_id |-> last.response.body.id,
                                   rating |-> 0, reviews |-> <<>>]
    /\ last.op = "update_reviews" =>
           /\ updated_item.rating = last.review_rating.rating
           /\ updated_item.reviews = last.review_rating.reviews
    /\ last.op = "delete_recipe" =>
           /\ last.recipe_id \notin StoredIds
           /\ \A j \in 1..Len(aggregates) :
                  aggregates[j].recipe_id # last.recipe_id

\* C13: when any write may fail, a createRecipe, updateReviews or
\* deleteRecipe that reports success has all of its writes in storage, and
\* one in which a write failed reports an error.
C13_SuccessMeansWritten ==
    last.op \in {"add_recipe", "update_reviews", "delete_recipe"} =>
        /\ last.failed # 0 => last.response.status = 500
        /\ last.response.status \in {200, 201, 204} => writes_reflected

\* The second write of a createRecipe has just failed: the error is
\* reported, the recipe is stored and has no aggregate.
C13_Witness ==
    /\ last.op = "add_recipe"
    /\ last.failed = 2
    /\ last.response.status = 500
    /\ partial = {}
    /\ Len(recipes) = Len(recipes_before) + 1
    /\ aggregates = aggregates_before

\* Both concurrent createRecipe requests have returned, and both had
\* loaded the recipe store before either saved it.
both_returned == \A p \in Slots : inflight[p].pc = "done"
loads_interleaved == \E p \in Slots : inflight[p].raced
returned_recipe(p) == inflight[p].response.body

\* C14: two createRecipe requests that both load the recipe store before
\* either saves it return the same id, and the later save clobbers the
\* earlier one: the recipe store holds the recipes that were loaded and
\* one recipe with that id, returned to one of the two requests.
C14_LaterSaveClobbers ==
    (both_returned /\ loads_interleaved) =>
        /\ returned_recipe("a").id = returned_recipe("b").id
        /\ inflight["a"].data = inflight["b"].data
        /\ \E p \in Slots :
               recipes = Append(inflight[p].data.recipes, returned_recipe(p))
        /\ Cardinality({i \in 1..Len(recipes) :
                            recipes[i].id = returned_recipe("a").id}) = 1

\* Two different recipes were sent and got the same id; one of them is
\* stored and the other is not.
C14_Witness ==
    /\ both_returned
    /\ loads_interleaved
    /\ returned_recipe("a").id = returned_recipe("b").id
    /\ returned_recipe("a") # returned_recipe("b")
    /\ Cardinality({p \in Slots : \E i \in 1..Len(recipes) :
                        recipes[i] = returned_recipe(p)}) = 1

\* Both add_review runs reported success for the same recipe; the run that
\* sent its PUT last, the other one, and the stored list of review texts.
both_added ==
    /\ \A p \in Slots : /\ inflight[p].pc = "done"
                        /\ inflight[p].op = "update_reviews"
                        /\ inflight[p].response.status = 200
    /\ inflight["a"].recipe_id = inflight["b"].recipe_id
later_run == CHOOSE p \in Slots : inflight[p].second
earlier_run == CHOOSE p \in Slots : p # later_run
runs_interleaved == \E p \in Slots : inflight[p].raced
stored_reviews ==
    aggregates[first_item(aggregates, inflight["a"].recipe_id)].reviews

\* C17: of two add_review runs for the same recipe that both fetch before
\* either sends its PUT, both report success and only the text of the run
\* that sent its PUT last is added to the stored reviews; of two runs that
\* do not interleave, both texts are added in the order of the runs.
C17_InterleavedRunsLoseReview ==
    both_added =>
        LET E == inflight[earlier_run].fetched
            first == inflight[earlier_run].review
            second == inflight[later_run].review
        IN  IF runs_interleaved
            THEN /\ inflight[later_run].fetched = E
                 /\ stored_reviews = E \o <<second>>
            ELSE stored_reviews = E \o <<first, second>>

\* Two interleaved runs with different texts have both reported success
\* and one of the two texts is stored.
C17_Witness ==
    /\ both_added
    /\ runs_interleaved
    /\ inflight["a"].review # inflight["b"].review
    /\ Cardinality({p \in Slots : \E i \in 1..Len(stored_reviews) :
                        stored_reviews[i] = inflight[p].review}) = 1

====
